---- MODULE Spec2Model ----
(***************************************************************************)
(* The scanner protocol client of photosmarter: the status prober, the     *)
(* modern (eSCL) and legacy job submitters, the fallback rule between     *)
(* them (PhotosmartService, src/server/services/photosmart-service.ts),   *)
(* the orchestrator scan(form) (src/server/api/scan.ts) and the           *)
(* capability resolver.                                                    *)
(*                                                                         *)
(* An XML document is a sequence of elements [tag, text] in document       *)
(* order.  A transport call either throws or yields a response.  Every     *)
(* await of the code is one step of the model; the locals of a function    *)
(* are dropped when it returns.                                            *)
(***************************************************************************)
EXTENDS Integers, Sequences, FiniteSets, TLC

\* ------------------------------------------------------------------ bounds
\* Elements in a status document.
MaxBody == 2
\* Entries in the legacy job list.
MaxJobs == 2
\* Elements in a capabilities document.
MaxDoc == 3
\* The longest text of a dimension field drawn from the alphabet.
MaxDimLen == 3

SeqsUpTo(S, n) == UNION {[1..k -> S] : k \in 0..n}

\* ------------------------------------------------------------- vocabulary
\* form.get() of an absent field.
Null == "<null>"
\* The JavaScript value undefined.
Undefined == "<undefined>"
\* A response header that is not present.
Absent == "<absent>"
NoMatch == "<no match>"
NoError == "<no error>"

baseUrl == "http://scanner"

FormTypes == {"PDF", "JPEG", Null}
Forms == [type : FormTypes]
NoForm == [type |-> Null]

StateTexts == {"", "Idle", "BusyWithScanJob", "Processing"}
StatusElements == [tag : {"pwg:State", "ScannerState"}, text : StateTexts]
StatusBodies == SeqsUpTo(StatusElements, MaxBody)

\* What a transport call can come back with: it throws (network failure,
\* timeout), or it yields a response.
Threw == [kind |-> "threw", status |-> 0, body |-> <<>>, location |-> Absent,
          contentType |-> Absent, data |-> ""]
NoResponse == [kind |-> "none", status |-> 0, body |-> <<>>, location |-> Absent,
               contentType |-> Absent, data |-> ""]
StatusResponses ==
    {Threw} \cup {[kind |-> "ok", status |-> 200, body |-> b, location |-> Absent,
                   contentType |-> Absent, data |-> ""] : b \in StatusBodies}

Locations == {Absent, "", "/eSCL/ScanJobs/7", "http://scanner/eSCL/ScanJobs/7"}
PostStatuses == {200, 201, 409, 503}
PostResponses ==
    {Threw} \cup {[kind |-> "ok", status |-> s, body |-> <<>>, location |-> l,
                   contentType |-> Absent, data |-> ""] :
                  s \in PostStatuses, l \in Locations}

ContentTypes == {Absent, "image/jpeg", "application/pdf", "application/x-unknown"}
Datas == {"bytesA", "bytesB"}
BinaryResponses ==
    {Threw} \cup {[kind |-> "ok", status |-> s, body |-> <<>>, location |-> Absent,
                   contentType |-> c, data |-> d] :
                  s \in {200, 404}, c \in ContentTypes, d \in Datas}

PageStates == {"Completed", "ReadyToUpload"}
BinaryURLs == {"", "/Scan/Jobs/1/Pages/1", "/Scan/Jobs/2/Pages/1"}
JobEntries == [PageState : PageStates, BinaryURL : BinaryURLs]
JobListResponses ==
    {Threw} \cup {[kind |-> "ok", status |-> 200, body |-> b, location |-> Absent,
                   contentType |-> Absent, data |-> ""] :
                  b \in SeqsUpTo(JobEntries, MaxJobs)}

\* ------------------------------------------------ capabilities documents
\* The text of an element is its sequence of characters.
tRGB24 == <<"R", "G", "B", "2", "4">>
tGrayscale8 == <<"G", "r", "a", "y", "s", "c", "a", "l", "e", "8">>
tBlackAndWhite1 == <<"B", "l", "a", "c", "k", "A", "n", "d", "W", "h", "i", "t", "e", "1">>
tRGB48 == <<"R", "G", "B", "4", "8">>
tPdf == <<"a", "p", "p", "l", "i", "c", "a", "t", "i", "o", "n", "/", "p", "d", "f">>
tJpeg == <<"i", "m", "a", "g", "e", "/", "j", "p", "e", "g">>
tJpegUpper == <<" ", "I", "m", "a", "g", "e", "/", "J", "P", "E", "G">>
tPng == <<"i", "m", "a", "g", "e", "/", "p", "n", "g">>

ColorModeTexts == {tRGB24, tGrayscale8, tBlackAndWhite1, tRGB48}
FormatTexts == {tPdf, tJpeg, tJpegUpper, tPng}
ResolutionTexts == {<<"7", "5">>, <<" ", "3", "0", "0">>, <<"6", "0", "0", "d", "p", "i">>, <<"a", "u", "t", "o">>}
CapElements ==
    [tag : {"scan:ColorMode"}, text : ColorModeTexts]
    \cup [tag : {"scan:DocumentFormatExt"}, text : FormatTexts]
    \cup [tag : {"scan:DiscreteResolution scan:XResolution"}, text : ResolutionTexts]
    \cup [tag : {"scan:MinWidth"}, text : {<<"0">>, <<"2", "5", "0", "0">>}]
    \cup [tag : {"scan:MaxWidth"}, text : {<<"1", "0", "0", "0">>, <<"2", "5", "5", "0">>}]
    \cup [tag : {"scan:MinHeight"}, text : {<<"3", "4", "0", "0">>}]
    \cup [tag : {"scan:MaxHeight"}, text : {<<"3", "4", "0", "0">>, <<>>}]
CapResponses ==
    {Threw} \cup {[kind |-> "ok", status |-> s, body |-> b, location |-> Absent,
                   contentType |-> Absent, data |-> ""] :
                  s \in {200}, b \in SeqsUpTo(CapElements, MaxDoc)}

\* axios rejects a response whose status is outside 2xx (its default
\* validateStatus); fetch() does not.
AxiosThrows(r) == r.kind = "threw" \/ r.status < 200 \/ r.status > 299
AxiosError(r) ==
    IF r.kind = "threw" THEN "Network Error" ELSE "Request failed with status code"

\* ------------------------------------------------------------------ state
VARIABLES
    pc,            \* the await at which the orchestrator scan(form) stands
    form,          \* the fields read from the form
    options,       \* normalizedOptions of PhotosmartService.scan
    response,      \* the response the running function last received
    esclProbe,     \* how the eSCL status probe ended: none, threw, nomatch, matched
    status,        \* the value status() returned
    esclOutcome,   \* how scanEscl ended
    legacyOutcome, \* how scanLegacy ended
    jobUrl,        \* scanEscl's jobUrl
    binaryUrl,     \* scanLegacy's binaryUrl
    scanOutcome,   \* how PhotosmartService.scan ended
    outcome,       \* how the orchestrator scan(form) ended
    requests,      \* the calls this invocation has issued, in order
    capPc,         \* the await at which capabilities() stands
    capResponse,   \* what the device answered to GET /eSCL/ScannerCapabilities
    caps,          \* what capabilities() returned
    optPc,         \* how far one request's options have come: form, called, normalized, built
    formIn,        \* the fields of the form the orchestrator parses
    args,          \* the options handed to PhotosmartService.scan
    normalized,    \* normalizedOptions with all its fields
    jobs,          \* the job bodies built from normalizedOptions
    pcs,           \* two invocations: the await at which each scan(form) stands
    formats,       \* the normalized format of each invocation
    statuses,      \* the value status() returned to each invocation
    jobUrls,       \* scanEscl's jobUrl of each invocation
    binaryUrls,    \* scanLegacy's binaryUrl of each invocation
    fetched,       \* the number of the device job whose output each retrieved
    outcomes,      \* how each invocation ended
    device         \* the scanner both invocations talk to

scanVars == <<pc, form, options, response, esclProbe, status, esclOutcome, legacyOutcome,
              jobUrl, binaryUrl, scanOutcome, outcome, requests>>
capVars == <<capPc, capResponse, caps>>
optVars == <<optPc, formIn, args, normalized, jobs>>
twoVars == <<pcs, formats, statuses, jobUrls, binaryUrls, fetched, outcomes, device>>
vars == <<scanVars, capVars, optVars, twoVars>>

NoOutcome == [kind |-> "none", success |-> FALSE, message |-> ""]
NoScanOutcome == [kind |-> "none", extension |-> Undefined, data |-> "", error |-> NoError]
NoOptions == [type |-> Null]
NoCaps == [formats |-> <<>>, colorModes |-> <<>>, resolutions |-> <<>>, dimensions |-> <<>>]

Get(url) == [method |-> "GET", url |-> url]
Post(url) == [method |-> "POST", url |-> url]
SaveCall(name) == [method |-> "SAVE", url |-> name]

\* ----------------------------------------------------------- status prober
\* Variant: a pattern that matches nothing.
EsclNeverMatches(body) == NoMatch
\* response.data.match(/<pwg:State>([^<]+)<\/pwg:State>/): the text of the
\* first pwg:State element that has one.
RECURSIVE EsclStateMatch(_)
EsclStateMatch(body) ==
    IF body = <<>> THEN NoMatch
    ELSE IF Head(body).tag = "pwg:State" /\ Head(body).text # "" THEN Head(body).text
    ELSE EsclStateMatch(Tail(body))

\* Variant: the matched token handed through as it is.
EsclStatusRaw(token) == token
\* `match[1] === 'Idle' ? 'Idle' : 'BusyWithScanJob'`
EsclStatusOf(token) == IF token = "Idle" THEN "Idle" ELSE "BusyWithScanJob"

\* $('ScannerState').first().text(): the text of the first ScannerState
\* element, the empty string when there is none.
RECURSIVE LegacyScannerState(_)
LegacyScannerState(body) ==
    IF body = <<>> THEN ""
    ELSE IF Head(body).tag = "ScannerState" THEN Head(body).text
    ELSE LegacyScannerState(Tail(body))

\* The second probe of status(): the raw text cast to PhotosmartStatus, and
\* undefined when the request throws.
LegacyStatusOf(r) == IF AxiosThrows(r) THEN Undefined ELSE LegacyScannerState(r.body)

IdleScan ==
    /\ pc = "idle" /\ form = NoForm /\ options = NoOptions /\ response = NoResponse
    /\ esclProbe = "none" /\ status = Undefined /\ esclOutcome = NoScanOutcome
    /\ legacyOutcome = NoScanOutcome /\ jobUrl = "" /\ binaryUrl = ""
    /\ scanOutcome = NoScanOutcome /\ outcome = NoOutcome /\ requests = <<>>
IdleCap == capPc = "idle" /\ capResponse = NoResponse /\ caps = [kind |-> "none", value |-> NoCaps]

Issue(req) == requests' = Append(requests, req)

\* scan(form) up to its first await: the form is read and status() issues
\* the eSCL probe.
ScanRequest ==
    /\ pc = "idle"
    /\ \E f \in Forms : form' = f
    /\ Issue(Get("/eSCL/ScannerStatus"))
    /\ pc' = "statusEscl"
    /\ UNCHANGED <<options, response, esclProbe, status, esclOutcome, legacyOutcome, jobUrl,
                   binaryUrl, scanOutcome, outcome, capVars, optVars, twoVars>>

\* status(): the eSCL probe answers; without a state it issues the legacy
\* probe.
StatusEscl ==
    /\ pc = "statusEscl"
    /\ \E r \in StatusResponses :
         /\ response' = r
         /\ IF AxiosThrows(r) \/ EsclStateMatch(r.body) = NoMatch
            THEN /\ esclProbe' = IF AxiosThrows(r) THEN "threw" ELSE "nomatch"
                 /\ Issue(Get("/Scan/Status"))
                 /\ pc' = "statusLegacy"
                 /\ status' = status
            ELSE /\ esclProbe' = "matched"
                 /\ status' = EsclStatusOf(EsclStateMatch(r.body))
                 /\ pc' = "statusReturned"
                 /\ requests' = requests
    /\ UNCHANGED <<form, options, esclOutcome, legacyOutcome, jobUrl, binaryUrl, scanOutcome,
                   outcome, capVars, optVars, twoVars>>

\* status(): the legacy probe answers.
StatusLegacy ==
    /\ pc = "statusLegacy"
    /\ \E r \in StatusResponses :
         /\ response' = r
         /\ status' = LegacyStatusOf(r)
    /\ pc' = "statusReturned"
    /\ UNCHANGED <<form, options, esclProbe, esclOutcome, legacyOutcome, jobUrl, binaryUrl,
                   scanOutcome, outcome, requests, capVars, optVars, twoVars>>

\* ------------------------------------------------------------ orchestrator
Returned(ok, msg) == [kind |-> "returned", success |-> ok, message |-> msg]
Escaped(err) == [kind |-> "threw", success |-> FALSE, message |-> err]

\* `status === 'BusyWithScanJob' ? 'busy' : 'unavailable'`
TranslatedStatus(s) == IF s = "BusyWithScanJob" THEN "busy" ELSE "unavailable"

NotIdleMessage(word) == "Photosmart scanner is " \o word \o ", please try again later!"
NotIdleOutcome(s) == Returned(FALSE, NotIdleMessage(TranslatedStatus(s)))

ScanFailedMessage(type) ==
    "Failed to scan " \o (IF type = "PDF" THEN "document" ELSE "photo")

\* Variants: a catch that reports the error text, and one that rethrows.
ScanCatchLeaks(type, err) == Returned(FALSE, err)
ScanCatchRethrows(type, err) == Escaped(err)
\* The catch around photosmartService.scan().
ScanCatch(type, err) == Returned(FALSE, ScanFailedMessage(type))

\* The catch around fileService.save().
SaveCatch(err) == Returned(FALSE, "Failed to save scanned file")

ScanSucceeded == Returned(TRUE, "Scan completed successfully")

\* normalizedOptions: `options?.type ?? 'PDF'`.
NormalizeOptions(f) == [type |-> IF f.type = Null THEN "PDF" ELSE f.type]

\* Variant: the submitters in the other order.
LegacyFirst == "legacyPost"
\* PhotosmartService.scan awaits scanEscl first.
FirstSubmitter == "esclPost"

SubmitRequest(p) ==
    IF p = "esclPost" THEN Post("/eSCL/ScanJobs") ELSE Post("/Scan/Jobs")

\* Variants: the fallback for every format, and for none.
FallbackAlways(o) == TRUE
FallbackNever(o) == FALSE
\* The catch of PhotosmartService.scan rethrows for PDF and falls through to
\* scanLegacy otherwise.
FallbackAllowed(o) == o.type # "PDF"

\* Variant: a gate that only stops an unreachable scanner.
DefinedStatus(s) == s # Undefined
\* `status !== 'Idle'` is false.
IsIdle(s) == s = "Idle"

\* The orchestrator resumes with the value of status(): it returns when the
\* scanner is not idle, and otherwise calls PhotosmartService.scan, which
\* normalizes the options and posts the job of its first submitter.
CheckStatus ==
    /\ pc = "statusReturned"
    /\ response' = NoResponse
    /\ IF ~IsIdle(status)
       THEN /\ outcome' = NotIdleOutcome(status)
            /\ pc' = "done"
            /\ UNCHANGED <<options, requests>>
       ELSE /\ options' = NormalizeOptions(form)
            /\ pc' = FirstSubmitter
            /\ Issue(SubmitRequest(FirstSubmitter))
            /\ outcome' = outcome
    /\ UNCHANGED <<form, esclProbe, status, esclOutcome, legacyOutcome, jobUrl, binaryUrl,
                   scanOutcome, capVars, optVars, twoVars>>

\* -------------------------------------------------------------- submitters
\* Variant: the failure swallowed and an empty result returned.
SwallowedError(err) == [kind |-> "result", extension |-> Undefined, data |-> "", error |-> err]
\* A submitter, or scan(), ends by throwing err.
Thrown(err) == [kind |-> "throw", extension |-> Undefined, data |-> "", error |-> err]

\* extension() of mime-types: the first extension registered for the type,
\* false for a type it does not know.
MimeExtension(contentType) ==
    CASE contentType = "image/jpeg" -> "jpeg"
      [] contentType = "application/pdf" -> "pdf"
      [] OTHER -> Undefined

\* Variant: a result that never names an extension.
ResultWithoutExtension(r) ==
    [kind |-> "result", extension |-> Undefined, data |-> r.data, error |-> NoError]
\* The result both submitters build from the binary response.
ResultOf(r) ==
    [kind |-> "result",
     extension |-> IF r.contentType # Absent THEN MimeExtension(r.contentType)
                   ELSE Undefined,
     data |-> r.data, error |-> NoError]

StartsWithHttp(l) == l \in {"http://scanner/eSCL/ScanJobs/7"}
JobUrlOf(l) == IF StartsWithHttp(l) THEN l ELSE baseUrl \o l

\* `extension ?? 'unknown'`
SafeExtension(ext) == IF ext = Undefined THEN "unknown" ELSE ext

\* The name the file is saved under: the sanitized preferred name or a time
\* stamp (not modelled), with the extension appended.
SaveName(res) == "scan." \o SafeExtension(res.extension)

\* PhotosmartService.scan ends with out; the orchestrator resumes, and either
\* its catch returns or it hands the result to the persistence sink.
ScanEnds(out) ==
    /\ scanOutcome' = out
    /\ IF out.kind = "throw"
       THEN /\ outcome' = ScanCatch(form.type, out.error)
            /\ pc' = IF ScanCatch(form.type, out.error).kind = "returned"
                     THEN "done" ELSE "threw"
            /\ requests' = requests
       ELSE /\ outcome' = outcome
            /\ pc' = "save"
            /\ Issue(SaveCall(SaveName(out)))

\* scanEscl ends with out: a result is the result of scan(); an error is
\* rethrown for PDF, and otherwise scanLegacy posts its job.
EsclEnds(out) ==
    /\ esclOutcome' = out
    /\ IF out.kind = "throw" /\ FallbackAllowed(options)
       THEN /\ pc' = "legacyPost"
            /\ Issue(Post("/Scan/Jobs"))
            /\ UNCHANGED <<scanOutcome, outcome>>
       ELSE ScanEnds(out)

\* scanLegacy ends with out, which scan() returns as it is.
LegacyEnds(out) ==
    /\ legacyOutcome' = out
    /\ ScanEnds(out)

\* Variant: only a response without the header counts as missing.
LocationAbsent(l) == l = Absent
\* `typeof location !== 'string' || location.length === 0`
LocationMissing(l) == l = Absent \/ l = ""

\* scanEscl: the POST of the job answers.
ScanEsclPost ==
    /\ pc = "esclPost"
    /\ \E r \in PostResponses :
         /\ response' = r
         /\ IF AxiosThrows(r) THEN EsclEnds(Thrown(AxiosError(r))) /\ jobUrl' = jobUrl
            ELSE IF r.status # 201
            THEN EsclEnds(Thrown("Failed sending eSCL scan job")) /\ jobUrl' = jobUrl
            ELSE IF LocationMissing(r.location)
            THEN /\ EsclEnds(Thrown("eSCL job location could not be determined"))
                 /\ jobUrl' = jobUrl
            ELSE /\ jobUrl' = JobUrlOf(r.location)
                 /\ pc' = "esclGet"
                 /\ Issue(Get(JobUrlOf(r.location) \o "/NextDocument"))
                 /\ UNCHANGED <<esclOutcome, scanOutcome, outcome>>
    /\ UNCHANGED <<form, options, esclProbe, status, legacyOutcome, binaryUrl, capVars, optVars, twoVars>>

\* scanEscl: the GET of the document answers.
ScanEsclGet ==
    /\ pc = "esclGet"
    /\ \E r \in BinaryResponses :
         /\ response' = r
         /\ IF AxiosThrows(r) THEN EsclEnds(Thrown(AxiosError(r)))
            ELSE EsclEnds(ResultOf(r))
    /\ UNCHANGED <<form, options, esclProbe, status, legacyOutcome, jobUrl, binaryUrl,
                   capVars, optVars, twoVars>>

\* Variant: the BinaryURL of every ScanJob that names one, completed or not.
AllBinaryUrls(body) ==
    SelectSeq([i \in DOMAIN body |-> body[i].BinaryURL], LAMBDA u : u # "")
\* fetchIncompleteBinaryUrls: the BinaryURL of every ScanJob whose PageState
\* is not Completed and whose BinaryURL is not empty, in document order.
RECURSIVE IncompleteBinaryUrls(_)
IncompleteBinaryUrls(body) ==
    IF body = <<>> THEN <<>>
    ELSE IF Head(body).PageState # "Completed" /\ Head(body).BinaryURL # ""
    THEN <<Head(body).BinaryURL>> \o IncompleteBinaryUrls(Tail(body))
    ELSE IncompleteBinaryUrls(Tail(body))

\* scanLegacy: the POST of the job answers.
ScanLegacyPost ==
    /\ pc = "legacyPost"
    /\ \E r \in PostResponses :
         /\ response' = r
         /\ IF AxiosThrows(r) THEN LegacyEnds(Thrown(AxiosError(r)))
            ELSE IF r.status # 201 THEN LegacyEnds(Thrown("Failed sending scan job"))
            ELSE /\ pc' = "legacyJobList"
                 /\ Issue(Get("/Jobs/JobList"))
                 /\ UNCHANGED <<legacyOutcome, scanOutcome, outcome>>
    /\ UNCHANGED <<form, options, esclProbe, status, esclOutcome, jobUrl, binaryUrl,
                   capVars, optVars, twoVars>>

\* scanLegacy: the job list answers.
ScanLegacyJobList ==
    /\ pc = "legacyJobList"
    /\ \E r \in JobListResponses :
         /\ response' = r
         /\ IF r.kind = "threw"
            THEN LegacyEnds(Thrown("fetch failed")) /\ binaryUrl' = binaryUrl
            ELSE IF IncompleteBinaryUrls(r.body) = <<>>
            THEN /\ LegacyEnds(Thrown("Binary URL could not be determined"))
                 /\ binaryUrl' = binaryUrl
            ELSE /\ binaryUrl' = Head(IncompleteBinaryUrls(r.body))
                 /\ pc' = "legacyGet"
                 /\ Issue(Get(baseUrl \o Head(IncompleteBinaryUrls(r.body))))
                 /\ UNCHANGED <<legacyOutcome, scanOutcome, outcome>>
    /\ UNCHANGED <<form, options, esclProbe, status, esclOutcome, jobUrl, capVars, optVars, twoVars>>

\* scanLegacy: the GET of the binary answers.
ScanLegacyGet ==
    /\ pc = "legacyGet"
    /\ \E r \in BinaryResponses :
         /\ response' = r
         /\ IF AxiosThrows(r) THEN LegacyEnds(Thrown(AxiosError(r)))
            ELSE LegacyEnds(ResultOf(r))
    /\ UNCHANGED <<form, options, esclProbe, status, esclOutcome, jobUrl, binaryUrl,
                   capVars, optVars, twoVars>>

\* The persistence sink answers: it saved the file, or it threw.
SaveFile ==
    /\ pc = "save"
    /\ response' = NoResponse
    /\ \E saved \in BOOLEAN :
         /\ outcome' = IF saved THEN ScanSucceeded ELSE SaveCatch("save failed")
         /\ pc' = IF saved \/ SaveCatch("save failed").kind = "returned"
                  THEN "done" ELSE "threw"
    /\ UNCHANGED <<form, options, esclProbe, status, esclOutcome, legacyOutcome, jobUrl,
                   binaryUrl, scanOutcome, requests, capVars, optVars, twoVars>>

\* ------------------------------------------------------ capability resolver
ScanDimensionPresets ==
    << [key |-> "A4", label |-> "A4 (210x297 mm)", width |-> 2480, height |-> 3508],
       [key |-> "Letter", label |-> "Letter (8.5x11 in)", width |-> 2550, height |-> 3300],
       [key |-> "4x6", label |-> "4x6 in", width |-> 1200, height |-> 1800],
       [key |-> "5x7", label |-> "5x7 in", width |-> 1500, height |-> 2100],
       [key |-> "10x15", label |-> "10x15 cm", width |-> 1181, height |-> 1772] >>

\* Object.values(PhotosmartScanResolutions)
PhotosmartScanResolutions == {600, 300, 200, 75}

\* Variant: the largest number first.
RECURSIVE SortDescending(_)
SortDescending(S) ==
    IF S = {} THEN <<>>
    ELSE LET m == CHOOSE x \in S : \A y \in S : x >= y
         IN  <<m>> \o SortDescending(S \ {m})

\* Array.prototype.sort((a, b) => a - b) of distinct numbers.
RECURSIVE SortAscending(_)
SortAscending(S) ==
    IF S = {} THEN <<>>
    ELSE LET m == CHOOSE x \in S : \A y \in S : x <= y
         IN  <<m>> \o SortAscending(S \ {m})

\* The entry of the capabilities built from a preset.
DimensionOf(preset) ==
    [value |-> ToString(preset.width) \o "x" \o ToString(preset.height),
     label |-> preset.label, width |-> preset.width, height |-> preset.height]

RECURSIVE MapDimensions(_)
MapDimensions(presets) ==
    IF presets = <<>> THEN <<>>
    ELSE <<DimensionOf(Head(presets))>> \o MapDimensions(Tail(presets))

\* The labels the formats and colorModes maps hold for their keys.
FormatLabels == [v \in {"PDF", "JPEG"} |-> v]
ColorLabels ==
    [v \in {"Color", "Grayscale", "BlackAndWhite"} |->
        IF v = "BlackAndWhite" THEN "Black and white" ELSE v]

getFallbackCapabilities ==
    [formats |-> <<[value |-> "PDF", label |-> "PDF"], [value |-> "JPEG", label |-> "JPEG"]>>,
     colorModes |-> <<[value |-> "Color", label |-> "Color"],
                      [value |-> "Grayscale", label |-> "Grayscale"],
                      [value |-> "BlackAndWhite", label |-> "Black and white"]>>,
     resolutions |-> SortAscending(PhotosmartScanResolutions),
     dimensions |-> MapDimensions(ScanDimensionPresets)]

\* String.prototype.trim, of the blank.
RECURSIVE TrimStart(_)
TrimStart(t) == IF t # <<>> /\ Head(t) = " " THEN TrimStart(Tail(t)) ELSE t
RECURSIVE TrimEnd(_)
TrimEnd(t) ==
    IF t # <<>> /\ t[Len(t)] = " " THEN TrimEnd(SubSeq(t, 1, Len(t) - 1)) ELSE t
Trim(t) == TrimEnd(TrimStart(t))

\* String.prototype.toLowerCase, of the letters the documents use.
LowerChar(c) ==
    CASE c = "I" -> "i" [] c = "J" -> "j" [] c = "P" -> "p" [] c = "E" -> "e"
      [] c = "G" -> "g" [] c = "R" -> "r" [] c = "B" -> "b" [] c = "A" -> "a"
      [] c = "W" -> "w" [] c = "C" -> "c" [] OTHER -> c
ToLowerCase(t) == [i \in DOMAIN t |-> LowerChar(t[i])]

DigitValue(c) ==
    CASE c = "0" -> 0 [] c = "1" -> 1 [] c = "2" -> 2 [] c = "3" -> 3 [] c = "4" -> 4
      [] c = "5" -> 5 [] c = "6" -> 6 [] c = "7" -> 7 [] c = "8" -> 8 [] c = "9" -> 9
IsDigit(c) == c \in {"0", "1", "2", "3", "4", "5", "6", "7", "8", "9"}

RECURSIVE DigitPrefix(_)
DigitPrefix(t) ==
    IF t # <<>> /\ IsDigit(Head(t)) THEN <<Head(t)>> \o DigitPrefix(Tail(t)) ELSE <<>>
RECURSIVE DigitsValue(_)
DigitsValue(d) ==
    IF d = <<>> THEN 0
    ELSE 10 * DigitsValue(SubSeq(d, 1, Len(d) - 1)) + DigitValue(d[Len(d)])

\* NaN is the empty sequence, a number n the sequence <<n>>.
NaN == <<>>
IsNaN(v) == v = NaN
\* Number.parseInt(text, 10): leading blanks, a sign, then the longest run of
\* digits; NaN when there is no digit.
ParseInt(t) ==
    LET s == TrimStart(t)
        signed == s # <<>> /\ Head(s) \in {"-", "+"}
        d == DigitPrefix(IF signed THEN Tail(s) ELSE s)
    IN  IF d = <<>> THEN NaN
        ELSE IF signed /\ Head(s) = "-" THEN <<0 - DigitsValue(d)>> ELSE <<DigitsValue(d)>>

\* $(selector): the texts of the elements named tag, in document order.
RECURSIVE TextsOf(_, _)
TextsOf(doc, tag) ==
    IF doc = <<>> THEN <<>>
    ELSE IF Head(doc).tag = tag THEN <<Head(doc).text>> \o TextsOf(Tail(doc), tag)
    ELSE TextsOf(Tail(doc), tag)
\* $(selector).first().text()
FirstText(doc, tag) == IF TextsOf(doc, tag) = <<>> THEN <<>> ELSE Head(TextsOf(doc, tag))
Range(q) == {q[i] : i \in DOMAIN q}

\* The keys of the colorModes map after the each() over scan:ColorMode.
ColorModesOf(doc) ==
    {IF v = tRGB24 THEN "Color" ELSE IF v = tGrayscale8 THEN "Grayscale" ELSE "BlackAndWhite" :
        v \in {Trim(t) : t \in Range(TextsOf(doc, "scan:ColorMode"))}
              \cap {tRGB24, tGrayscale8, tBlackAndWhite1}}

\* The resolutions set after the each() over the discrete X resolutions.
ResolutionsOf(doc) ==
    {p[1] : p \in {ParseInt(Trim(t)) :
                     t \in Range(TextsOf(doc, "scan:DiscreteResolution scan:XResolution"))}
                  \ {NaN}}

\* The keys of the formats map after the each() over scan:DocumentFormatExt.
FormatsOf(doc) ==
    {IF v = tPdf THEN "PDF" ELSE "JPEG" :
        v \in {ToLowerCase(Trim(t)) : t \in Range(TextsOf(doc, "scan:DocumentFormatExt"))}
              \cap {tPdf, tJpeg}}

\* Number.MAX_SAFE_INTEGER, here the largest number of the checker: above
\* every width and height a document of the model can state.
MaxSafeInteger == 2147483647

Bound(doc, tag, default) ==
    LET v == ParseInt(Trim(FirstText(doc, tag))) IN IF IsNaN(v) THEN default ELSE v[1]

\* Variant: the width alone decides.
FitsWidth(preset, doc) ==
    /\ preset.width >= Bound(doc, "scan:MinWidth", 0)
    /\ preset.width <= Bound(doc, "scan:MaxWidth", MaxSafeInteger)
\* ScanDimensionPresets.filter(...)
FitsBounds(preset, doc) ==
    /\ preset.width >= Bound(doc, "scan:MinWidth", 0)
    /\ preset.width <= Bound(doc, "scan:MaxWidth", MaxSafeInteger)
    /\ preset.height >= Bound(doc, "scan:MinHeight", 0)
    /\ preset.height <= Bound(doc, "scan:MaxHeight", MaxSafeInteger)

RECURSIVE FilterPresets(_, _)
FilterPresets(presets, doc) ==
    IF presets = <<>> THEN <<>>
    ELSE IF FitsBounds(Head(presets), doc)
    THEN <<Head(presets)>> \o FilterPresets(Tail(presets), doc)
    ELSE FilterPresets(Tail(presets), doc)

formatOrder == <<"PDF", "JPEG">>
colorOrder == <<"Color", "Grayscale", "BlackAndWhite">>

\* Variant: every value of the order, whether the map has it or not.
ProjectAll(order, keys, labels) ==
    [i \in DOMAIN order |-> [value |-> order[i], label |-> labels[order[i]]]]
\* order.filter((value) => map.has(value)).map((value) => ({value, label}))
RECURSIVE Project(_, _, _)
Project(order, keys, labels) ==
    IF order = <<>> THEN <<>>
    ELSE IF Head(order) \in keys
    THEN <<[value |-> Head(order), label |-> labels[Head(order)]]>>
         \o Project(Tail(order), keys, labels)
    ELSE Project(Tail(order), keys, labels)

\* Variant: the decoded list kept when it is empty.
KeepEmpty(found, fallback) == found
\* `found.length > 0 ? found : fallback`
OrFallback(found, fallback) == IF Len(found) > 0 THEN found ELSE fallback

fetchEsclCapabilities(doc, fallback) ==
    [formats |-> IF Cardinality(FormatsOf(doc)) > 0
                 THEN Project(formatOrder, FormatsOf(doc), FormatLabels)
                 ELSE fallback.formats,
     colorModes |-> IF Cardinality(ColorModesOf(doc)) > 0
                    THEN Project(colorOrder, ColorModesOf(doc), ColorLabels)
                    ELSE fallback.colorModes,
     resolutions |-> IF Cardinality(ResolutionsOf(doc)) > 0
                     THEN SortAscending(ResolutionsOf(doc))
                     ELSE fallback.resolutions,
     dimensions |-> OrFallback(MapDimensions(FilterPresets(ScanDimensionPresets, doc)),
                               fallback.dimensions)]

CapsReturned(c) == [kind |-> "returned", value |-> c]
\* Variant: a catch that rethrows.
CapabilitiesRethrows(fallback) == [kind |-> "threw", value |-> NoCaps]
\* The catch of capabilities() returns the fallback.
CapabilitiesCatch(fallback) == CapsReturned(fallback)

\* capabilities() up to its await: the GET of the capabilities document.
CapabilitiesRequest ==
    /\ capPc = "idle"
    /\ capPc' = "fetching"
    /\ UNCHANGED <<capResponse, caps, scanVars, optVars, twoVars>>

\* The device answers, and capabilities() ends.
CapabilitiesAnswer ==
    /\ capPc = "fetching"
    /\ \E r \in CapResponses :
         /\ capResponse' = r
         /\ caps' = IF AxiosThrows(r) THEN CapabilitiesCatch(getFallbackCapabilities)
                    ELSE CapsReturned(fetchEsclCapabilities(r.body, getFallbackCapabilities))
    /\ capPc' = "done"
    /\ UNCHANGED <<scanVars, optVars, twoVars>>

\* ------------------------------------------------------- request options
\* A text is a sequence of characters.  A form field is absent (form.get
\* gives null) or holds a text.
NoField == [present |-> FALSE, text |-> <<>>]
Field(t) == [present |-> TRUE, text |-> t]

\* An optional value: undefined, or defined with its value.
NoNumber == [defined |-> FALSE, value |-> NaN]
SomeNumber(v) == [defined |-> TRUE, value |-> v]
Size(w, h) == [kind |-> "size", width |-> w, height |-> h]
\* A property Object.prototype hands down (a function, or the prototype
\* itself): it has neither a width nor a height.
InheritedProperty == [kind |-> "inherited", width |-> 0, height |-> 0]
NoDimension == [defined |-> FALSE, value |-> InheritedProperty]
SomeDimension(d) == [defined |-> TRUE, value |-> d]

tA4 == <<"A", "4">>
tLetter == <<"L", "e", "t", "t", "e", "r">>
t4x6 == <<"4", "x", "6">>
t5x7 == <<"5", "x", "7">>
t10x15 == <<"1", "0", "x", "1", "5">>
tToString == <<"t", "o", "S", "t", "r", "i", "n", "g">>
tConstructor == <<"c", "o", "n", "s", "t", "r", "u", "c", "t", "o", "r">>

\* PhotosmartScanDimensions, by key.
PhotosmartScanDimensions ==
    [k \in {tA4, tLetter} |-> IF k = tA4 THEN Size(2480, 3508) ELSE Size(2550, 3300)]
\* Names every object answers `in` for without owning them.
ObjectPrototypeKeys == {tToString, tConstructor}

PhotosmartScanQualities == [Low |-> 25, Medium |-> 65, High |-> 85, Maximum |-> 100]
\* PhotosmartScanResolutions, by name.
ScanResolutionNamed == [High |-> 600, Text |-> 300, Photo |-> 200, Screen |-> 75]

\* Variant: a pattern no text matches.
NoSizeSplit(t) == 0
\* /^(\d+)x(\d+)$/: the place of the x between two runs of digits, 0 when the
\* text has no such shape.
SizeSplit(t) ==
    LET at == {i \in 2..(Len(t) - 1) :
                 /\ t[i] = "x"
                 /\ \A j \in 1..(i - 1) : IsDigit(t[j])
                 /\ \A j \in (i + 1)..Len(t) : IsDigit(t[j])}
    IN  IF at = {} THEN 0 ELSE CHOOSE i \in at : TRUE

parseDimension(field) ==
    IF ~field.present THEN NoDimension
    ELSE LET text == Trim(field.text)
             at == SizeSplit(text)
             width == DigitsValue(SubSeq(text, 1, at - 1))
             height == DigitsValue(SubSeq(text, at + 1, Len(text)))
         IN  IF text = <<>> THEN NoDimension
             ELSE IF at # 0 /\ width > 0 /\ height > 0 THEN SomeDimension(Size(width, height))
             ELSE IF field.text \in DOMAIN PhotosmartScanDimensions
             THEN SomeDimension(PhotosmartScanDimensions[field.text])
             ELSE IF field.text \in ObjectPrototypeKeys THEN SomeDimension(InheritedProperty)
             ELSE NoDimension

normalizeColorMode(field) ==
    IF ~field.present THEN Undefined
    ELSE LET text == ToLowerCase(Trim(field.text))
         IN  IF text = <<>> THEN Undefined
             ELSE IF text \in {<<"c", "o", "l", "o", "r">>, <<"r", "g", "b", "2", "4">>} THEN "Color"
             ELSE IF text \in {<<"g", "r", "a", "y", "s", "c", "a", "l", "e">>, <<"g", "r", "a", "y", "s", "c", "a", "l", "e", "8">>} THEN "Grayscale"
             ELSE IF text \in {<<"b", "l", "a", "c", "k">>, <<"b", "l", "a", "c", "k", "a", "n", "d", "w", "h", "i", "t", "e">>, <<"b", "l", "a", "c", "k", "a", "n", "d", "w", "h", "i", "t", "e", "1">>}
             THEN "BlackAndWhite"
             ELSE Undefined

\* a ?? b
OrElse(a, b) == IF a.defined THEN a.value ELSE b

\* The options scan(form) hands to photosmartService.scan.
ParsedOptions(f) ==
    LET parsedQuality == IF f.quality.present THEN ParseInt(f.quality.text) ELSE NaN
        parsedResolution == IF f.resolution.present THEN ParseInt(f.resolution.text) ELSE NaN
    IN  [type |-> f.type,
         dimension |-> SomeDimension(OrElse(parseDimension(f.dimension),
                                            PhotosmartScanDimensions[tA4])),
         resolution |-> SomeNumber(IF IsNaN(parsedResolution) \/ parsedResolution = <<0>>
                                   THEN <<ScanResolutionNamed.Text>> ELSE parsedResolution),
         quality |-> IF IsNaN(parsedQuality) THEN NoNumber ELSE SomeNumber(parsedQuality),
         colorMode |-> normalizeColorMode(IF f.colorMode.present THEN f.colorMode
                                          ELSE f.color)]

\* Math.min and Math.max: NaN when either argument is NaN.
MathMin(a, b) == IF IsNaN(a) \/ IsNaN(b) THEN NaN ELSE IF a[1] <= b[1] THEN a ELSE b
MathMax(a, b) == IF IsNaN(a) \/ IsNaN(b) THEN NaN ELSE IF a[1] >= b[1] THEN a ELSE b
\* Variant: only the upper limit applied.
clampAbove(min, value, max) == MathMin(value, <<max>>)
\* Math.max(min, Math.min(value, max))
clamp(min, value, max) == MathMax(<<min>>, MathMin(value, <<max>>))

\* Variant: the medium quality as the default.
mediumQuality == PhotosmartScanQualities.Medium
\* `options?.quality ?? PhotosmartScanQualities.Maximum`
defaultQuality == PhotosmartScanQualities.Maximum

\* normalizedOptions of PhotosmartService.scan, with all its fields.
normalizedOptions(o) ==
    [resolution |-> OrElse(o.resolution, <<ScanResolutionNamed.Text>>),
     dimension |-> OrElse(o.dimension, PhotosmartScanDimensions[tA4]),
     type |-> NormalizeOptions([type |-> o.type]).type,
     quality |-> clamp(0, OrElse(o.quality, <<defaultQuality>>), 100),
     colorMode |-> IF o.colorMode = Undefined THEN "Color" ELSE o.colorMode]

\* `${value}` of a number, and of the width or height of a dimension.
NumberText(v) == IF IsNaN(v) THEN "NaN" ELSE ToString(v[1])
ExtentText(d, n) == IF d.kind = "size" THEN ToString(n) ELSE "undefined"

\* Variant: the quality itself as the factor.
compressionIsQuality(quality) == quality
\* `100 - options.quality`
compressionFactor(quality) == IF IsNaN(quality) THEN NaN ELSE <<100 - quality[1]>>

\* The fields createScanJob interpolates into the legacy job body.
createScanJob(o) ==
    [XResolution |-> NumberText(o.resolution),
     YResolution |-> NumberText(o.resolution),
     Width |-> ExtentText(o.dimension, o.dimension.width),
     Height |-> ExtentText(o.dimension, o.dimension.height),
     Format |-> IF o.type = "PDF" THEN "Pdf" ELSE "Jpeg",
     CompressionQFactor |-> NumberText(compressionFactor(o.quality)),
     ColorSpace |-> IF o.colorMode = "Color" THEN "Color" ELSE "Gray",
     ContentType |-> IF o.type = "PDF" THEN "Document" ELSE "Photo"]

\* The fields createEsclScanJob interpolates into the eSCL job body.
createEsclScanJob(o) ==
    [Intent |-> IF o.type = "PDF" THEN "Document" ELSE "Photo",
     ColorMode |-> IF o.colorMode = "Color" THEN "RGB24"
                   ELSE IF o.colorMode = "BlackAndWhite" THEN "BlackAndWhite1"
                   ELSE "Grayscale8",
     XResolution |-> NumberText(o.resolution),
     YResolution |-> NumberText(o.resolution),
     DocumentFormatExt |-> IF o.type = "PDF" THEN "application/pdf" ELSE "image/jpeg",
     Width |-> ExtentText(o.dimension, o.dimension.width),
     Height |-> ExtentText(o.dimension, o.dimension.height)]

\* The forms and the direct calls one request is drawn from.
QualityFields == {NoField} \cup {Field(t) : t \in {<<"-", "5">>, <<"0">>, <<"8", "0">>, <<"1", "0", "0">>, <<"1", "5", "0">>, <<"a", "b", "c">>}}
ResolutionFields ==
    {NoField} \cup {Field(t) : t \in {<<"6", "0", "0">>, <<"0">>, <<"a", "b", "c">>, <<"-", "7", "5">>}}
ColorModeFields == {NoField} \cup {Field(t) : t \in {<<"G", "r", "a", "y", "s", "c", "a", "l", "e">>, <<" ", "r", "g", "b", "2", "4">>, <<"s", "e", "p", "i", "a">>}}
ColorFields == {NoField, Field(<<"b", "l", "a", "c", "k">>)}
DimensionFields == {NoField} \cup {Field(t) : t \in {<<"1", "2", "0", "0", "x", "1", "8", "0", "0">>, tLetter, tToString}}
OptionForms ==
    [type : FormTypes, quality : QualityFields, resolution : ResolutionFields,
     dimension : DimensionFields, colorMode : ColorModeFields, color : ColorFields]

\* The texts a dimension field is drawn from: every text of the alphabet up
\* to MaxDimLen characters, and the keys and sizes the tables name.
DimAlphabet == {"0", "1", "4", "x", "A", " "}
DimensionTexts ==
    SeqsUpTo(DimAlphabet, MaxDimLen)
        \cup {tA4, tLetter, t4x6, t5x7, t10x15, tToString, tConstructor, <<"2", "4", "8", "0", "x", "3", "5", "0", "8">>,
              <<"1", "2", "0", "0", "x", "1", "8", "0", "0">>, <<" ", "L", "e", "t", "t", "e", "r">>, <<" ", "5", "x", "7", " ">>, <<"a", "b", "c">>, <<"1", "0", "X", "1", "5">>}
DimensionForms ==
    [type : {Null}, quality : {NoField}, resolution : {NoField},
     dimension : {NoField} \cup {Field(t) : t \in DimensionTexts},
     colorMode : {NoField}, color : {NoField}]

DirectArgs ==
    [type : FormTypes,
     dimension : {NoDimension, SomeDimension(Size(1500, 2100))},
     resolution : {NoNumber, SomeNumber(<<75>>)},
     quality : {NoNumber} \cup {SomeNumber(v) : v \in {NaN, <<0 - 1>>, <<0>>, <<25>>, <<100>>,
                                                       <<101>>}},
     colorMode : {Undefined, "Color", "Grayscale", "BlackAndWhite"}]

NoFormIn ==
    [type |-> Null, quality |-> NoField, resolution |-> NoField, dimension |-> NoField,
     colorMode |-> NoField, color |-> NoField]
NoArgs ==
    [type |-> Null, dimension |-> NoDimension, resolution |-> NoNumber, quality |-> NoNumber,
     colorMode |-> Undefined]
NoNormalized ==
    [resolution |-> NaN, dimension |-> InheritedProperty, type |-> Null, quality |-> NaN,
     colorMode |-> Undefined]
NoJobs == [legacy |-> createScanJob(NoNormalized), escl |-> createEsclScanJob(NoNormalized)]

IdleOpt ==
    /\ optPc = "idle" /\ formIn = NoFormIn /\ args = NoArgs /\ normalized = NoNormalized
    /\ jobs = NoJobs

\* A request arrives as a form from forms, or photosmartService.scan is
\* called with options of calls.
Arrives(forms, calls) ==
    /\ normalized = NoNormalized /\ jobs = NoJobs
    /\ \/ optPc = "form" /\ formIn \in forms /\ args = NoArgs
       \/ optPc = "called" /\ formIn = NoFormIn /\ args \in calls

\* scan(form) reads the form and calls photosmartService.scan.
ParseForm ==
    /\ optPc = "form"
    /\ args' = ParsedOptions(formIn)
    /\ optPc' = "called"
    /\ UNCHANGED <<formIn, normalized, jobs, scanVars, capVars, twoVars>>

\* PhotosmartService.scan fills in the defaults.
NormalizeCall ==
    /\ optPc = "called"
    /\ normalized' = normalizedOptions(args)
    /\ optPc' = "normalized"
    /\ UNCHANGED <<formIn, args, jobs, scanVars, capVars, twoVars>>

\* The submitters build their job bodies from normalizedOptions.
BuildJobs ==
    /\ optPc = "normalized"
    /\ jobs' = [legacy |-> createScanJob(normalized), escl |-> createEsclScanJob(normalized)]
    /\ optPc' = "built"
    /\ UNCHANGED <<formIn, args, normalized, scanVars, capVars, twoVars>>

NextOptions == ParseForm \/ NormalizeCall \/ BuildJobs

\* --------------------------------------------- two invocations, one device
Invocations == {1, 2}
\* A job the device holds: the invocation that posted it (0 for a job from
\* before) and the PageState the job list shows for it.
DeviceJob(owner, state) == [owner |-> owner, state |-> state]
\* The device: whether it serves eSCL, and its jobs in the order of the job
\* list.  It is scanning while a job waits to be uploaded.
Devices ==
    [escl : BOOLEAN, jobs : {<<>>, <<DeviceJob(0, "Canceled")>>}]
Scanning(d) == \E n \in DOMAIN d.jobs : d.jobs[n].state = "ReadyToUpload"
DeviceAnswer(tag, text) ==
    [kind |-> "ok", status |-> 200, body |-> <<[tag |-> tag, text |-> text]>>,
     location |-> Absent, contentType |-> Absent, data |-> ""]
EsclJobLocation(n) == "/eSCL/ScanJobs/" \o ToString(n)
LegacyBinaryUrl(n) == "/Scan/Jobs/" \o ToString(n) \o "/Pages/1"
\* The body the device answers to GET /Jobs/JobList.
JobListOf(d) ==
    [n \in DOMAIN d.jobs |-> [PageState |-> d.jobs[n].state, BinaryURL |-> LegacyBinaryUrl(n)]]
Accepted(d, i) == [d EXCEPT !.jobs = Append(@, DeviceJob(i, "ReadyToUpload"))]
Uploaded(d, n) == [d EXCEPT !.jobs[n].state = "Completed"]
\* The job an address of the device names.
JobAt(d, url) ==
    CHOOSE n \in DOMAIN d.jobs :
        url \in {baseUrl \o LegacyBinaryUrl(n), baseUrl \o EsclJobLocation(n) \o "/NextDocument"}

IdleTwo ==
    /\ pcs = [i \in Invocations |-> "idle"] /\ formats = [i \in Invocations |-> "PDF"]
    /\ statuses = [i \in Invocations |-> Undefined]
    /\ jobUrls = [i \in Invocations |-> ""] /\ binaryUrls = [i \in Invocations |-> ""]
    /\ fetched = [i \in Invocations |-> 0] /\ outcomes = [i \in Invocations |-> "none"]
    /\ device = [escl |-> FALSE, jobs |-> <<>>]

\* Two forms arrive at one server, which talks to one device.
InitTwo ==
    /\ IdleScan /\ IdleCap /\ IdleOpt
    /\ pcs = [i \in Invocations |-> "idle"]
    /\ formats \in [Invocations -> {"PDF", "JPEG"}]
    /\ statuses = [i \in Invocations |-> Undefined]
    /\ jobUrls = [i \in Invocations |-> ""] /\ binaryUrls = [i \in Invocations |-> ""]
    /\ fetched = [i \in Invocations |-> 0] /\ outcomes = [i \in Invocations |-> "none"]
    /\ device \in Devices

At(i, place) == pcs[i] = place
Goto(i, place) == pcs' = [pcs EXCEPT ![i] = place]
Ends(i, how) == Goto(i, "done") /\ outcomes' = [outcomes EXCEPT ![i] = how]

\* scan(form) of invocation i up to the eSCL probe of status().
TwoScanRequest(i) ==
    /\ At(i, "idle")
    /\ Goto(i, "statusEscl")
    /\ UNCHANGED <<formats, statuses, jobUrls, binaryUrls, fetched, outcomes, device>>

\* The device answers the eSCL probe, if it serves eSCL.
TwoStatusEscl(i) ==
    /\ At(i, "statusEscl")
    /\ LET r == IF device.escl
                THEN DeviceAnswer("pwg:State",
                                  IF Scanning(device) THEN "Processing" ELSE "Idle")
                ELSE Threw
       IN  IF AxiosThrows(r) \/ EsclStateMatch(r.body) = NoMatch
           THEN Goto(i, "statusLegacy") /\ statuses' = statuses
           ELSE /\ statuses' = [statuses EXCEPT ![i] = EsclStatusOf(EsclStateMatch(r.body))]
                /\ Goto(i, "statusReturned")
    /\ UNCHANGED <<formats, jobUrls, binaryUrls, fetched, outcomes, device>>

\* The device answers the legacy probe.
TwoStatusLegacy(i) ==
    /\ At(i, "statusLegacy")
    /\ statuses' =
          [statuses EXCEPT ![i] =
              LegacyStatusOf(DeviceAnswer("ScannerState",
                                          IF Scanning(device) THEN "BusyWithScanJob"
                                          ELSE "Idle"))]
    /\ Goto(i, "statusReturned")
    /\ UNCHANGED <<formats, jobUrls, binaryUrls, fetched, outcomes, device>>

\* The orchestrator of invocation i resumes with its status.
TwoCheckStatus(i) ==
    /\ At(i, "statusReturned")
    /\ IF ~IsIdle(statuses[i]) THEN Ends(i, "notIdle")
       ELSE Goto(i, FirstSubmitter) /\ outcomes' = outcomes
    /\ UNCHANGED <<formats, statuses, jobUrls, binaryUrls, fetched, device>>

\* The device takes a posted job when it is not scanning; while it scans it
\* takes the job or refuses it.
Takes(taken) == taken \/ Scanning(device)

\* scanEscl of invocation i: the POST answers.
TwoEsclPost(i) ==
    /\ At(i, "esclPost")
    /\ \E taken \in BOOLEAN :
         /\ Takes(taken)
         /\ IF device.escl /\ taken
            THEN /\ device' = Accepted(device, i)
                 /\ jobUrls' = [jobUrls EXCEPT
                                  ![i] = JobUrlOf(EsclJobLocation(Len(device.jobs) + 1))]
                 /\ Goto(i, "esclGet") /\ outcomes' = outcomes
            ELSE /\ IF FallbackAllowed([type |-> formats[i]])
                    THEN Goto(i, "legacyPost") /\ outcomes' = outcomes
                    ELSE Ends(i, "failed")
                 /\ UNCHANGED <<device, jobUrls>>
    /\ UNCHANGED <<formats, statuses, binaryUrls, fetched>>

\* scanEscl of invocation i: the device sends the document of the job.
TwoEsclGet(i) ==
    /\ At(i, "esclGet")
    /\ fetched' = [fetched EXCEPT ![i] = JobAt(device, jobUrls[i] \o "/NextDocument")]
    /\ device' = Uploaded(device, JobAt(device, jobUrls[i] \o "/NextDocument"))
    /\ Goto(i, "save")
    /\ UNCHANGED <<formats, statuses, jobUrls, binaryUrls, outcomes>>

\* scanLegacy of invocation i: the POST answers.
TwoLegacyPost(i) ==
    /\ At(i, "legacyPost")
    /\ \E taken \in BOOLEAN :
         /\ Takes(taken)
         /\ IF taken
            THEN device' = Accepted(device, i) /\ Goto(i, "legacyJobList")
                 /\ outcomes' = outcomes
            ELSE Ends(i, "failed") /\ device' = device
    /\ UNCHANGED <<formats, statuses, jobUrls, binaryUrls, fetched>>

\* scanLegacy of invocation i: the job list answers.
TwoJobList(i) ==
    /\ At(i, "legacyJobList")
    /\ IF IncompleteBinaryUrls(JobListOf(device)) = <<>>
       THEN Ends(i, "failed") /\ binaryUrls' = binaryUrls
       ELSE /\ binaryUrls' =
                  [binaryUrls EXCEPT ![i] = Head(IncompleteBinaryUrls(JobListOf(device)))]
            /\ Goto(i, "legacyGet") /\ outcomes' = outcomes
    /\ UNCHANGED <<formats, statuses, jobUrls, fetched, device>>

\* scanLegacy of invocation i: the device sends the binary of the job.
TwoLegacyGet(i) ==
    /\ At(i, "legacyGet")
    /\ fetched' = [fetched EXCEPT ![i] = JobAt(device, baseUrl \o binaryUrls[i])]
    /\ device' = Uploaded(device, JobAt(device, baseUrl \o binaryUrls[i]))
    /\ Goto(i, "save")
    /\ UNCHANGED <<formats, statuses, jobUrls, binaryUrls, outcomes>>

\* The persistence sink answers invocation i.
TwoSaveFile(i) ==
    /\ At(i, "save")
    /\ \E saved \in BOOLEAN : Ends(i, IF saved THEN "saved" ELSE "saveFailed")
    /\ UNCHANGED <<formats, statuses, jobUrls, binaryUrls, fetched, device>>

NextTwo ==
    \/ \E i \in Invocations : TwoScanRequest(i) /\ UNCHANGED <<scanVars, capVars, optVars>>
    \/ \E i \in Invocations : TwoStatusEscl(i) /\ UNCHANGED <<scanVars, capVars, optVars>>
    \/ \E i \in Invocations : TwoStatusLegacy(i) /\ UNCHANGED <<scanVars, capVars, optVars>>
    \/ \E i \in Invocations : TwoCheckStatus(i) /\ UNCHANGED <<scanVars, capVars, optVars>>
    \/ \E i \in Invocations : TwoEsclPost(i) /\ UNCHANGED <<scanVars, capVars, optVars>>
    \/ \E i \in Invocations : TwoEsclGet(i) /\ UNCHANGED <<scanVars, capVars, optVars>>
    \/ \E i \in Invocations : TwoLegacyPost(i) /\ UNCHANGED <<scanVars, capVars, optVars>>
    \/ \E i \in Invocations : TwoJobList(i) /\ UNCHANGED <<scanVars, capVars, optVars>>
    \/ \E i \in Invocations : TwoSaveFile(i) /\ UNCHANGED <<scanVars, capVars, optVars>>
    \/ \E i \in Invocations : TwoLegacyGet(i) /\ UNCHANGED <<scanVars, capVars, optVars>>

NextCap == CapabilitiesRequest \/ CapabilitiesAnswer

Init == IdleScan /\ IdleCap /\ IdleOpt /\ IdleTwo

Next ==
    \/ ScanRequest
    \/ StatusEscl
    \/ StatusLegacy
    \/ CheckStatus
    \/ ScanEsclPost
    \/ ScanEsclGet
    \/ ScanLegacyPost
    \/ ScanLegacyJobList
    \/ ScanLegacyGet
    \/ SaveFile

Spec == Init /\ [][Next]_vars

\* One call of capabilities().
SpecCap == Init /\ [][NextCap]_vars

\* One request's options, from the form or a direct call to the job bodies.
InitOptions == IdleScan /\ IdleCap /\ IdleTwo /\ Arrives(OptionForms, DirectArgs)
SpecOptions == InitOptions /\ [][NextOptions]_vars

\* The dimension field alone, over every text of the alphabet.
InitDim == IdleScan /\ IdleCap /\ IdleTwo /\ Arrives(DimensionForms, {})
SpecDim == InitDim /\ [][NextOptions]_vars

\* Two invocations of scan(form) interleaved at their awaits.
SpecTwo == InitTwo /\ [][NextTwo]_vars

\* Every awaited call settles and the runtime resumes the awaiting function.
FairSpec == Spec /\ WF_vars(Next)

\* ------------------------------------------------------------- properties
Count(req) == Cardinality({i \in DOMAIN requests : requests[i] = req})
Issued(req) == Count(req) > 0

EsclSubmit == Post("/eSCL/ScanJobs")
LegacySubmit == Post("/Scan/Jobs")
\* The calls of scanLegacy.
LegacyRequests ==
    {LegacySubmit, Get("/Jobs/JobList")} \cup {Get(baseUrl \o u) : u \in BinaryURLs}
IsSave(req) == req.method = "SAVE"
SubmissionOrSave(req) == req \in {EsclSubmit, LegacySubmit} \/ IsSave(req)

ScanEnded == scanOutcome.kind # "none"
EsclFailed == esclOutcome.kind = "throw"

\* C1: while the normalized format is PDF, no call of the legacy submitter
\* (POST /Scan/Jobs, GET /Jobs/JobList, GET of a binary URL) has been issued,
\* whether scanEscl returned a result or failed.
C1_PdfNeverLegacy ==
    options.type = "PDF" =>
        /\ \A i \in DOMAIN requests : requests[i] \notin LegacyRequests
        /\ legacyOutcome = NoScanOutcome
        /\ pc \notin {"legacyPost", "legacyJobList", "legacyGet"}
C1_Witness ==
    /\ pc = "done" /\ options.type = "PDF" /\ EsclFailed
    /\ Issued(EsclSubmit) /\ outcome.kind = "returned"

\* C2: when the format is not PDF and scanEscl has failed, scanLegacy is
\* running or has ended; POST /Scan/Jobs and POST /eSCL/ScanJobs were each
\* issued exactly once; and once scan() has ended, its outcome is the
\* outcome of scanLegacy, result or error.
C2_JpegFallsBackOnce ==
    (EsclFailed /\ options.type # "PDF") =>
        /\ Count(LegacySubmit) = 1
        /\ Count(EsclSubmit) = 1
        /\ pc \in {"legacyPost", "legacyJobList", "legacyGet", "save", "done"}
        /\ pc \in {"save", "done"} => (ScanEnded /\ scanOutcome = legacyOutcome)
        /\ pc \in {"legacyPost", "legacyJobList", "legacyGet"} => ~ScanEnded
C2_Witness ==
    /\ pc = "done" /\ options.type = "JPEG" /\ EsclFailed
    /\ legacyOutcome.kind = "result" /\ outcome.success
    /\ esclOutcome.error = "eSCL job location could not be determined"

\* C3 as stated: when the format is PDF and scanEscl has failed, the failure
\* message the orchestrator reports is the error scanEscl threw.
C3_OriginalErrorIsMessage ==
    (pc = "done" /\ form.type = "PDF" /\ options.type = "PDF" /\ EsclFailed) =>
        outcome.message = esclOutcome.error

\* C3 as amended: when the format is PDF and scanEscl has failed, scan() of
\* the service ends by throwing that same error, and the orchestrator reports
\* the fixed message "Failed to scan document" ("Failed to scan photo" when
\* the form named no format), which is not the error text.
C3_ErrorRethrownMessageFixed ==
    (pc = "done" /\ options.type = "PDF" /\ EsclFailed) =>
        /\ scanOutcome = esclOutcome
        /\ outcome = Returned(FALSE, IF form.type = "PDF" THEN "Failed to scan document"
                                     ELSE "Failed to scan photo")
        /\ outcome.message # esclOutcome.error
C3_Witness ==
    /\ pc = "done" /\ form.type = "PDF" /\ EsclFailed
    /\ scanOutcome.error = "Failed sending eSCL scan job"
    /\ outcome.message = "Failed to scan document"

StatusPhase == pc \in {"idle", "statusEscl", "statusLegacy", "statusReturned"}

\* C4: when status() returned anything other than Idle, the invocation ends
\* at once with success:false, and it has issued no job submission (POST
\* /eSCL/ScanJobs, POST /Scan/Jobs) and no call of the persistence sink.
C4_NotIdleNoSubmission ==
    (~StatusPhase /\ status # "Idle") =>
        /\ pc = "done"
        /\ outcome.kind = "returned" /\ outcome.success = FALSE
        /\ \A i \in DOMAIN requests : ~SubmissionOrSave(requests[i])
        /\ ~ScanEnded
C4_Witness == pc = "done" /\ status = "BusyWithScanJob" /\ esclProbe = "matched"

\* C5: every call of the legacy submitter in requests comes after a POST
\* /eSCL/ScanJobs of the same invocation, and scanEscl has failed by then.
C5_EsclFirst ==
    /\ \A i \in DOMAIN requests :
         requests[i] \in LegacyRequests =>
            /\ \E j \in 1..(i - 1) : requests[j] = EsclSubmit
            /\ EsclFailed
    /\ pc \in {"legacyPost", "legacyJobList", "legacyGet"} => EsclFailed
C5_Witness ==
    /\ Issued(Get("/Jobs/JobList")) /\ EsclFailed /\ form.type = "JPEG"
    /\ esclOutcome.error = "Network Error"

\* The state tokens of a status document: the texts of its pwg:State elements.
PwgTokens(body) ==
    {body[i].text : i \in {j \in DOMAIN body : body[j].tag = "pwg:State"}} \ {""}

\* C6: status() returns Idle when the eSCL status document holds the state
\* token Idle, returns BusyWithScanJob when it holds another state token
\* (and in both cases without asking the legacy endpoint), and returns
\* undefined when both probes threw.
C6_ProberMapping ==
    /\ (pc = "statusLegacy" /\ response.kind = "ok") => PwgTokens(response.body) = {}
    /\ (pc = "statusReturned" /\ esclProbe = "matched") =>
         /\ requests = <<Get("/eSCL/ScannerStatus")>>
         /\ PwgTokens(response.body) = {"Idle"} => status = "Idle"
         /\ "Idle" \notin PwgTokens(response.body) => status = "BusyWithScanJob"
    /\ (pc = "statusReturned" /\ esclProbe = "threw" /\ response.kind = "threw") =>
         status = Undefined
C6_Witness ==
    /\ pc = "statusReturned" /\ esclProbe = "matched" /\ status = "BusyWithScanJob"
    /\ PwgTokens(response.body) = {"Processing"}

\* C7 as stated: the value status() returns is Idle, BusyWithScanJob or
\* undefined, and a legacy document without a ScannerState element or with
\* a token that is neither Idle nor BusyWithScanJob yields undefined.
C7_StatusInEnum ==
    /\ status \in {"Idle", "BusyWithScanJob", Undefined}
    /\ (pc = "statusReturned" /\ esclProbe # "matched" /\ response.kind = "ok"
          /\ LegacyScannerState(response.body) \notin {"Idle", "BusyWithScanJob"}) =>
         status = Undefined

\* A state token other than Idle was obtained from one of the probes.
DeviceBusy == status \notin {"Idle", Undefined, ""}
\* No state token was obtained from either probe.
NoStateObtained == status \in {Undefined, ""}

\* C8 as stated: when the orchestrator stops because the scanner is not idle,
\* its message says "busy" exactly when a state token other than Idle was
\* obtained, and "unavailable" exactly when no state token was obtained.
C8_BusyVersusUnavailable ==
    (pc = "done" /\ status # "Idle") =>
        /\ outcome.message = NotIdleMessage("busy") <=> DeviceBusy
        /\ outcome.message = NotIdleMessage("unavailable") <=> NoStateObtained

\* C9: the invocation of scan(form) ends, and it ends by returning
\* {success, message}: no exception leaves it.
C9_AlwaysReturns ==
    /\ <>[](pc = "done" /\ outcome.kind = "returned" /\ outcome.message # "")
    /\ [](pc # "threw" /\ outcome.kind # "threw")
C9_Witness ==
    /\ pc = "done" /\ outcome = Returned(FALSE, "Failed to save scanned file")
    /\ scanOutcome.kind = "result" /\ EsclFailed

NonEmptyCaps(c) ==
    /\ Len(c.formats) > 0 /\ Len(c.colorModes) > 0
    /\ Len(c.resolutions) > 0 /\ Len(c.dimensions) > 0

\* C10: capabilities() ends by returning, whatever the device answered, and
\* the formats, colorModes, resolutions and dimensions it returns are each
\* non-empty.
C10_CapabilitiesNeverEmpty ==
    /\ caps.kind # "threw"
    /\ capPc = "done" => (caps.kind = "returned" /\ NonEmptyCaps(caps.value))
\* A document whose bounds exclude every preset and that names no format.
C10_Witness ==
    /\ capPc = "done" /\ capResponse.kind = "ok"
    /\ FilterPresets(ScanDimensionPresets, capResponse.body) = <<>>
    /\ FormatsOf(capResponse.body) = {}
    /\ Range(TextsOf(capResponse.body, "scan:DocumentFormatExt")) = {tPng}
    /\ caps.value.dimensions = getFallbackCapabilities.dimensions

\* A request whose options have been normalized.
Normalized == optPc \in {"normalized", "built"}
QualityGiven == args.quality.defined /\ ~IsNaN(args.quality.value)

\* C11: a quality above 100 is normalized to 100, a quality below 0 to 0, and
\* a quality inside [0,100] is left as it is; the legacy job is built from
\* that normalized value.
C11_QualityClamped ==
    (Normalized /\ QualityGiven) =>
        LET q == args.quality.value[1]
        IN  /\ q > 100 => normalized.quality = <<100>>
            /\ q < 0 => normalized.quality = <<0>>
            /\ q \in 0..100 => normalized.quality = <<q>>
            /\ optPc = "built" =>
                   jobs.legacy.CompressionQFactor = ToString(100 - normalized.quality[1])
C11_Witness ==
    /\ optPc = "built" /\ formIn.quality = Field(<<"-", "5">>)
    /\ args.quality = SomeNumber(<<0 - 5>>) /\ normalized.quality = <<0>>

\* The defaults of the fields other than the quality.
OtherDefaults ==
    /\ ~args.resolution.defined => normalized.resolution = <<300>>
    /\ ~args.dimension.defined => normalized.dimension = Size(2480, 3508)
    /\ args.type = Null => normalized.type = "PDF"
    /\ args.colorMode = Undefined => normalized.colorMode = "Color"

\* C12 as stated: without a quality from the caller the normalized quality is
\* the medium quality, the other defaults being resolution 300, dimension A4,
\* format PDF and colorMode Color.
C12_DefaultQualityMedium ==
    Normalized =>
        /\ ~args.quality.defined => normalized.quality = <<PhotosmartScanQualities.Medium>>
        /\ OtherDefaults

\* C12: without a quality from the caller the normalized quality is the
\* maximum quality, 100, and the legacy job asks for compression 0; the other
\* defaults are resolution 300, dimension A4, format PDF and colorMode Color.
C12_DefaultQualityMaximum ==
    Normalized =>
        /\ ~args.quality.defined =>
               /\ normalized.quality = <<100>>
               /\ optPc = "built" => jobs.legacy.CompressionQFactor = "0"
        /\ OtherDefaults
C12_Witness ==
    /\ optPc = "built" /\ formIn.quality = NoField /\ ~args.quality.defined
    /\ normalized.quality = <<100>> /\ args.type = Null /\ normalized.type = "PDF"
    /\ args.colorMode = Undefined /\ normalized.colorMode = "Color"

\* C13: for a quality q in [0,100] the legacy job body carries the compression
\* factor 100 - q, which lies in [0,100].
C13_CompressionFactor ==
    (optPc = "built" /\ QualityGiven /\ args.quality.value[1] \in 0..100) =>
        LET q == args.quality.value[1]
        IN  /\ jobs.legacy.CompressionQFactor = ToString(100 - q)
            /\ (100 - q) \in 0..100
C13_Witness ==
    /\ optPc = "built" /\ args.quality = SomeNumber(<<80>>)
    /\ jobs.legacy.CompressionQFactor = "20"

\* The form has been read.
Parsed == optPc \in {"called", "normalized", "built"}
\* The text is digits, an x, digits, and both numbers are positive.
WellFormedSize(t) ==
    /\ SizeSplit(t) # 0
    /\ DigitsValue(SubSeq(t, 1, SizeSplit(t) - 1)) > 0
    /\ DigitsValue(SubSeq(t, SizeSplit(t) + 1, Len(t))) > 0

\* C14: a dimension text "WxH" of positive integers parses to width W and
\* height H, "A4" resolves to 2480x3508, and every other text resolves to the
\* A4 default 2480x3508 ("Letter", the other key of the table the parser
\* looks up, is let through with its own size).
C14_DimensionParsing ==
    (Parsed /\ formIn.dimension.present) =>
        LET raw == formIn.dimension.text
            t == Trim(raw)
            d == args.dimension.value
        IN  /\ args.dimension.defined
            /\ IF WellFormedSize(t)
               THEN d = Size(DigitsValue(SubSeq(t, 1, SizeSplit(t) - 1)),
                             DigitsValue(SubSeq(t, SizeSplit(t) + 1, Len(t))))
               ELSE IF raw = tLetter THEN d = Size(2550, 3300)
               ELSE d = Size(2480, 3508)

\* capabilities() has decoded a document the device answered.
Decoded == capPc = "done" /\ capResponse.kind = "ok" /\ ~AxiosThrows(capResponse)
XResolutionTag == "scan:DiscreteResolution scan:XResolution"
ResolutionEntries == TextsOf(capResponse.body, XResolutionTag)
\* The numbers the discrete resolution entries state.
StatedResolutions ==
    {p[1] : p \in {ParseInt(Trim(ResolutionEntries[i])) : i \in DOMAIN ResolutionEntries}
                  \ {NaN}}
StrictlyAscending(q) == \A i \in 1..(Len(q) - 1) : q[i] < q[i + 1]
FallbackResolutions == <<75, 200, 300, 600>>

\* C15 as stated: a document with zero discrete resolution entries gives the
\* fallback list [75, 200, 300, 600]; any other document gives the distinct
\* resolutions its entries state, strictly ascending.
C15_ZeroEntriesFallback ==
    Decoded =>
        IF ResolutionEntries = <<>> THEN caps.value.resolutions = FallbackResolutions
        ELSE /\ StrictlyAscending(caps.value.resolutions)
             /\ Range(caps.value.resolutions) = StatedResolutions

\* C15: a document none of whose discrete resolution entries states a number
\* (no entry at all, or only unparsable ones) gives the fallback list
\* [75, 200, 300, 600]; any other document gives the distinct numbers its
\* entries state, strictly ascending.
C15_NoNumberFallback ==
    Decoded =>
        IF StatedResolutions = {} THEN caps.value.resolutions = FallbackResolutions
        ELSE /\ StrictlyAscending(caps.value.resolutions)
             /\ Range(caps.value.resolutions) = StatedResolutions
C15_Witness ==
    /\ Decoded /\ Len(ResolutionEntries) = 3
    /\ ResolutionEntries[1] = <<"6", "0", "0", "d", "p", "i">>
    /\ ResolutionEntries[2] = <<"7", "5">> /\ ResolutionEntries[3] = ResolutionEntries[1]
    /\ caps.value.resolutions = <<75, 600>>

\* scanEscl has returned the document the device sent as image/jpeg, and the
\* orchestrator awaits the persistence sink.
JpegScanned ==
    /\ pc = "save" /\ esclOutcome.kind = "result"
    /\ response.kind = "ok" /\ response.contentType = "image/jpeg"
LastRequest == requests[Len(requests)]

FormatEntries == TextsOf(capResponse.body, "scan:DocumentFormatExt")
ColorEntries == TextsOf(capResponse.body, "scan:ColorMode")
\* The formats and colour modes the device document names, whatever the order
\* and however often.
ReportedFormats ==
    {v \in {"PDF", "JPEG"} :
        \E i \in DOMAIN FormatEntries :
            ToLowerCase(Trim(FormatEntries[i])) = IF v = "PDF" THEN tPdf ELSE tJpeg}
ReportedColors ==
    {v \in {"Color", "Grayscale", "BlackAndWhite"} :
        \E i \in DOMAIN ColorEntries :
            Trim(ColorEntries[i]) = IF v = "Color" THEN tRGB24
                                    ELSE IF v = "Grayscale" THEN tGrayscale8
                                    ELSE tBlackAndWhite1}
ValuesOf(list) == [i \in DOMAIN list |-> list[i].value]
InSet(S, v) == v \in S

\* C17: when the device document names a recognized format (colour mode),
\* the formats (colorModes) returned are exactly the named ones, each once,
\* in the order PDF, JPEG (Color, Grayscale, BlackAndWhite); when it names
\* none, the full fallback list is returned.
C17_CanonicalOrder ==
    Decoded =>
        /\ ValuesOf(caps.value.formats) =
              IF ReportedFormats = {} THEN <<"PDF", "JPEG">>
              ELSE SelectSeq(<<"PDF", "JPEG">>, LAMBDA v : InSet(ReportedFormats, v))
        /\ ValuesOf(caps.value.colorModes) =
              IF ReportedColors = {} THEN <<"Color", "Grayscale", "BlackAndWhite">>
              ELSE SelectSeq(<<"Color", "Grayscale", "BlackAndWhite">>,
                             LAMBDA v : InSet(ReportedColors, v))
        /\ \A i \in DOMAIN caps.value.formats :
              caps.value.formats[i].label = caps.value.formats[i].value
        /\ \A i \in DOMAIN caps.value.colorModes :
              caps.value.colorModes[i].label =
                  IF caps.value.colorModes[i].value = "BlackAndWhite"
                  THEN "Black and white" ELSE caps.value.colorModes[i].value
C17_Witness ==
    /\ Decoded
    /\ ColorEntries = <<tBlackAndWhite1, tRGB24>> /\ FormatEntries = <<tJpegUpper>>
    /\ ValuesOf(caps.value.colorModes) = <<"Color", "BlackAndWhite">>
    /\ ValuesOf(caps.value.formats) = <<"JPEG">>

\* The number the document states for a bound: that of the first element of
\* the tag, NaN when there is none or its text is no number.
StatedBound(tag) ==
    LET e == TextsOf(capResponse.body, tag)
    IN  IF e = <<>> THEN NaN ELSE ParseInt(Trim(e[1]))
AtLeast(n, tag) == IsNaN(StatedBound(tag)) \/ n >= StatedBound(tag)[1]
AtMost(n, tag) == IsNaN(StatedBound(tag)) \/ n <= StatedBound(tag)[1]
Fits(preset) ==
    /\ AtLeast(preset.width, "scan:MinWidth") /\ AtMost(preset.width, "scan:MaxWidth")
    /\ AtLeast(preset.height, "scan:MinHeight") /\ AtMost(preset.height, "scan:MaxHeight")
FittingPresets == SelectSeq(ScanDimensionPresets, Fits)

\* C18: the dimensions returned are the presets of the table whose width and
\* height lie within the bounds the document states, in table order, a bound
\* that states no number not constraining (a minimum of 0, no maximum); when
\* no preset fits, all presets of the table are returned.
C18_DimensionsWithinBounds ==
    Decoded =>
        LET expected == IF FittingPresets = <<>> THEN ScanDimensionPresets ELSE FittingPresets
            dims == caps.value.dimensions
        IN  /\ Len(dims) = Len(expected)
            /\ \A i \in DOMAIN dims :
                  /\ dims[i].width = expected[i].width
                  /\ dims[i].height = expected[i].height
                  /\ dims[i].label = expected[i].label
                  /\ dims[i].value =
                        ToString(expected[i].width) \o "x" \o ToString(expected[i].height)
C18_Witness ==
    /\ Decoded
    /\ TextsOf(capResponse.body, "scan:MinHeight") = << <<"3", "4", "0", "0">> >>
    /\ TextsOf(capResponse.body, "scan:MaxHeight") = << <<>> >>
    /\ Len(caps.value.dimensions) = 1 /\ caps.value.dimensions[1].value = "2480x3508"

\* The keys of ScanDimensionPresets as texts, in table order.
PresetKeyTexts == <<tA4, tLetter, t4x6, t5x7, t10x15>>
DimensionGiven(t) == Parsed /\ formIn.dimension = Field(t)
Resolved == args.dimension.value

\* C19 as stated: each key of the preset table, given as the dimension text,
\* resolves to the width and height of its preset.
C19_EveryPresetKeyResolves ==
    \A i \in DOMAIN ScanDimensionPresets :
        DimensionGiven(PresetKeyTexts[i]) =>
            Resolved = Size(ScanDimensionPresets[i].width, ScanDimensionPresets[i].height)

\* C19: the keys A4 and Letter resolve to the width and height of their
\* presets; the keys 4x6, 5x7 and 10x15 are read as sizes in pixels, 4 by 6,
\* 5 by 7 and 10 by 15, and those are the sizes of the job bodies; a preset
\* is reached by the text of its width and height, as 1200x1800.
C19_TableKeysResolve ==
    /\ DimensionGiven(tA4) => Resolved = Size(2480, 3508)
    /\ DimensionGiven(tLetter) => Resolved = Size(2550, 3300)
    /\ DimensionGiven(t4x6) => Resolved = Size(4, 6)
    /\ DimensionGiven(t5x7) => Resolved = Size(5, 7)
    /\ DimensionGiven(t10x15) => Resolved = Size(10, 15)
    /\ DimensionGiven(<<"1", "2", "0", "0", "x", "1", "8", "0", "0">>) =>
           Resolved = Size(ScanDimensionPresets[3].width, ScanDimensionPresets[3].height)
    /\ (optPc = "built" /\ formIn.dimension.present
            /\ formIn.dimension.text \in Range(PresetKeyTexts)) =>
           /\ jobs.legacy.Width = ToString(Resolved.width)
           /\ jobs.escl.Height = ToString(Resolved.height)
C19_Witness ==
    /\ optPc = "built" /\ formIn.dimension = Field(t4x6) /\ Resolved = Size(4, 6)
    /\ jobs.legacy.Width = "4" /\ jobs.legacy.Height = "6"

\* The addresses scanEscl can ask the document from.
DocumentUrls ==
    {l \o "/NextDocument" : l \in Locations \ {Absent}}
        \cup {baseUrl \o l \o "/NextDocument" : l \in Locations \ {Absent}}
IsDocumentGet(req) == req.method = "GET" /\ req.url \in DocumentUrls
\* The device took the job: 201 with a Location that is not empty.
JobCreated(r) ==
    r.kind = "ok" /\ r.status = 201 /\ r.location # Absent /\ r.location # ""

\* C20: the GET of {jobUrl}/NextDocument is issued only right after the POST
\* to /eSCL/ScanJobs answered 201 with a non-empty Location; when the POST
\* answers anything else, or fails in transport, scanEscl ends with an error,
\* no document GET is issued and no result is returned.
C20_ModernFailFast ==
    /\ [](pc = "esclGet" =>
            /\ JobCreated(response)
            /\ LastRequest = Get(jobUrl \o "/NextDocument")
            /\ jobUrl \in {response.location, baseUrl \o response.location})
    /\ [](\A i \in DOMAIN requests :
            IsDocumentGet(requests[i]) => i > 1 /\ requests[i - 1] = EsclSubmit)
    /\ [][(pc = "esclPost" /\ ~JobCreated(response')) =>
            /\ esclOutcome'.kind = "throw"
            /\ pc' # "esclGet"
            /\ \A i \in DOMAIN requests' : ~IsDocumentGet(requests'[i])]_vars
C20_Witness ==
    /\ pc = "done" /\ response.kind = "ok" /\ response.status = 201
    /\ response.location = ""
    /\ esclOutcome = Thrown("eSCL job location could not be determined")
    /\ \A i \in DOMAIN requests : ~IsDocumentGet(requests[i])

JobListGet == Get("/Jobs/JobList")
IsBinaryGet(req) == req.method = "GET" /\ req.url \in {baseUrl \o u : u \in BinaryURLs}
\* The places of the job-list entries that are not marked Completed, and of
\* those among them that name a binary URL.
NotCompleted(body) == {i \in DOMAIN body : body[i].PageState # "Completed"}
Fetchable(body) == {i \in NotCompleted(body) : body[i].BinaryURL # ""}
First(S) == CHOOSE i \in S : \A j \in S : i <= j

\* C21 as stated, its first part: the binary scanLegacy fetches is that of
\* the first job-list entry not marked Completed.
C21_FirstNotCompleted ==
    pc = "legacyGet" =>
        /\ NotCompleted(response.body) # {}
        /\ binaryUrl = response.body[First(NotCompleted(response.body))].BinaryURL

\* C21: after its POST returned 201 scanLegacy reads the job list and
\* fetches the binary of the first entry that is not marked Completed and
\* names a binary URL; when the list has no such entry it fails with "Binary
\* URL could not be determined" and issues no binary GET; when the POST does
\* not return 201 it fails without reading the job list.
C21_LegacyOrder ==
    /\ [](pc = "legacyJobList" =>
            response.kind = "ok" /\ response.status = 201 /\ LastRequest = JobListGet)
    /\ [](pc = "legacyGet" =>
            /\ Fetchable(response.body) # {}
            /\ binaryUrl = response.body[First(Fetchable(response.body))].BinaryURL
            /\ LastRequest = Get(baseUrl \o binaryUrl)
            /\ requests[Len(requests) - 1] = JobListGet)
    /\ [][(pc = "legacyJobList" /\ response'.kind = "ok" /\ Fetchable(response'.body) = {}) =>
            /\ legacyOutcome' = Thrown("Binary URL could not be determined")
            /\ \A i \in DOMAIN requests' : ~IsBinaryGet(requests'[i])]_vars
    /\ [][(pc = "legacyPost" /\ ~(response'.kind = "ok" /\ response'.status = 201)) =>
            /\ legacyOutcome'.kind = "throw"
            /\ ~(\E i \in DOMAIN requests' : requests'[i] = JobListGet)]_vars
C21_Witness ==
    /\ pc = "legacyGet" /\ Len(response.body) = 2
    /\ response.body[1] = [PageState |-> "ReadyToUpload", BinaryURL |-> ""]
    /\ response.body[2] = [PageState |-> "ReadyToUpload", BinaryURL |-> "/Scan/Jobs/2/Pages/1"]
    /\ binaryUrl = "/Scan/Jobs/2/Pages/1"

\* The jobs of the device not marked Completed.
OpenJobs == {n \in DOMAIN device.jobs : device.jobs[n].state # "Completed"}

\* C22 as stated: when scanLegacy has read the job list after its job was
\* accepted, the list holds one job that is not completed, and the binary it
\* goes on to retrieve is that of a job this invocation posted.
C22_OwnJobRetrieved ==
    \A i \in Invocations :
        At(i, "legacyGet") =>
            /\ Cardinality(OpenJobs) = 1
            /\ device.jobs[JobAt(device, baseUrl \o binaryUrls[i])].owner = i

\* C23: the status check is no mutual exclusion.  An invocation goes on to
\* submit exactly when its own probe returned Idle, whatever the other
\* invocation does and whatever the device does by then; so both can have
\* been told Idle and both submit, one of them while the device scans.
C23_CheckIsNoLock ==
    [][\A i \in Invocations :
          (At(i, "statusReturned") /\ pcs'[i] # pcs[i]) =>
              /\ (pcs'[i] = "esclPost") = (statuses[i] = "Idle")
              /\ (pcs'[i] = "done") = (statuses[i] # "Idle")]_vars
C23_Witness ==
    /\ statuses[1] = "Idle" /\ statuses[2] = "Idle"
    /\ pcs[1] = "esclGet" /\ device.jobs[Len(device.jobs)].owner = 1
    /\ Scanning(device) /\ pcs[2] = "esclPost"

\* C24: when the submission failed, the message is "Failed to scan document"
\* exactly when the format of the job was PDF, also when PDF was the default
\* of an omitted format, and "Failed to scan photo" exactly when it was JPEG.
C24_MessageFollowsFormat ==
    (pc = "done" /\ scanOutcome.kind = "throw") =>
        /\ (outcome.message = "Failed to scan document") = (options.type = "PDF")
        /\ (outcome.message = "Failed to scan photo") = (options.type = "JPEG")

EsclStatusGet == Get("/eSCL/ScannerStatus")
LegacyStatusGet == Get("/Scan/Status")
\* The response names a state: some pwg:State element has a text.
NamesState(r) == \E k \in DOMAIN r.body : r.body[k].tag = "pwg:State" /\ r.body[k].text # ""

\* C25: one status probe issues at most one GET /eSCL/ScannerStatus and then
\* at most one GET /Scan/Status; the legacy GET is issued exactly when the
\* eSCL probe threw or its response named no state, and never after the eSCL
\* probe produced a state.
C25_ProbeOnceEach ==
    /\ [](/\ Count(EsclStatusGet) <= 1 /\ Count(LegacyStatusGet) <= 1
          /\ Issued(LegacyStatusGet) =>
                /\ requests[1] = EsclStatusGet /\ requests[2] = LegacyStatusGet
                /\ esclProbe \in {"threw", "nomatch"}
          /\ esclProbe = "matched" => ~Issued(LegacyStatusGet))
    /\ [][pc = "statusEscl" =>
            /\ Issued(LegacyStatusGet)' = (AxiosThrows(response') \/ ~NamesState(response'))
            /\ (esclProbe' = "matched") = ~Issued(LegacyStatusGet)']_vars
C25_Witness ==
    /\ pc = "statusReturned" /\ esclProbe = "nomatch"
    /\ requests = <<EsclStatusGet, LegacyStatusGet>>

Saves == {i \in DOMAIN requests : IsSave(requests[i])}

\* C26: the persistence sink is called at most once in an invocation, and
\* only when a submitter has returned the document the device sent; when the
\* status is not Idle, or the submitters that apply have failed, it is never
\* called.
C26_SinkOnceAfterResult ==
    /\ Cardinality(Saves) <= 1
    /\ Saves # {} =>
          /\ Saves = {Len(requests)}
          /\ status = "Idle" /\ scanOutcome.kind = "result"
          /\ scanOutcome \in {esclOutcome, legacyOutcome}
          /\ LastRequest = SaveCall(SaveName(scanOutcome))
    /\ pc = "save" =>
          /\ Saves # {} /\ response.kind = "ok" /\ ~AxiosThrows(response)
          /\ scanOutcome.data = response.data
    /\ (status # "Idle" \/ scanOutcome.kind = "throw") => Saves = {}
    /\ (esclOutcome.kind = "throw" /\ (options.type = "PDF" \/ legacyOutcome.kind = "throw")) =>
          Saves = {}
C26_Witness ==
    /\ pc = "done" /\ esclOutcome.kind = "throw" /\ legacyOutcome.kind = "result"
    /\ Cardinality(Saves) = 1 /\ outcome = ScanSucceeded

\* C27: whatever quality scan() of the service is called with, absent and NaN
\* included, the normalized quality is an integer in [0,100], and so is the
\* compression factor of the legacy job body.
C27_QualityAlwaysInRange ==
    /\ Normalized => normalized.quality \in {<<n>> : n \in 0..100}
    /\ optPc = "built" => jobs.legacy.CompressionQFactor \in {ToString(n) : n \in 0..100}

\* The request came as a form, and the form has been read.
FromForm == Parsed /\ args = ParsedOptions(formIn)
ResolutionText == IF formIn.resolution.present THEN formIn.resolution.text ELSE <<>>

\* C28: for every resolution and dimension of the form, the resolution, the
\* width and the height of the job bodies are positive integers; an absent,
\* unparsable or zero resolution becomes 300.  (A dimension that is no size at
\* all, the inherited name of C14, is let through here.)
C28_PositiveExtents ==
    (FromForm /\ Normalized) =>
        /\ ~IsNaN(normalized.resolution) /\ normalized.resolution[1] > 0
        /\ (IsNaN(ParseInt(ResolutionText)) \/ ParseInt(ResolutionText) = <<0>>) =>
               normalized.resolution = <<300>>
        /\ normalized.dimension.kind = "size" =>
               normalized.dimension.width > 0 /\ normalized.dimension.height > 0

====
